---- MODULE Spec2Model ----
(***************************************************************************)
(* StatusMetricController (solution/application/metrics/                   *)
(* status_controller.py): one invocation folds a batch of DynamoDB stream  *)
(* records into per-workflow-run metric deltas and commits them with one   *)
(* idempotent transact_write_items call wrapped in a retry policy.         *)
(*                                                                         *)
(* Conventions.  A Python Optional is a sequence of length 0 or 1 (None is *)
(* <<>>).  An image is the parsed GlacierTransferMetadata of a stream      *)
(* image.  retrieve_status is kept split at "/" as a sequence of segments. *)
(* The metric table is the environment: a row per workflow run, ADD        *)
(* updates, transactions deduplicated by ClientRequestToken.               *)
(***************************************************************************)
EXTENDS Integers, Sequences, FiniteSets, TLC

VARIABLES
    records,                \* self.records
    client_request_token,   \* self.client_request_token
    workflow_run_metrics,   \* self.workflow_run_metrics (keys = touched runs)
    counted_logs,           \* self.counted_logs
    idx,                    \* position of the for loop of handle_archive_status_changed
    pc,                     \* "loop", "attempt", "call", "done", "failed"
    retries,                \* failed attempts counted by the retry wrapper
    pending,                \* store calls the running attempt still has to make
    store,                  \* metric table: workflow run -> row of six counters
    store_tokens,           \* transactions the table has accepted (token + content)
    response,               \* what the last store call answered
    logged,                 \* counted-status lines written by logger.info
    calls,                  \* calls of handle_archive_status_changed on this instance
    later,                  \* batches the stream delivers to later invocations
    peer                    \* a concurrent invocation that is not running right now

vars == <<records, client_request_token, workflow_run_metrics, counted_logs,
          idx, pc, retries, pending, store, store_tokens, response, logged,
          calls, later, peer>>

------------------------------------------------------------------------------
(* Bounds of the model *)

MaxBatch == 3
MaxSize == 1

------------------------------------------------------------------------------
(* Values *)

None == <<>>
Some(x) == <<x>>

REQUESTED == "requested"
STAGED == "staged"
DOWNLOADED == "downloaded"
ARCHIVE_RETRIEVAL == "archive-retrieval"

WorkflowRuns == {"w1", "w2"}

Image(w, t, s, a, st) ==
    [workflow_run |-> w, retrieval_type |-> t, size |-> s, archive_id |-> a,
     retrieve_status |-> st]

\* the order in which the keys of a stream record were inserted into its
\* dict and into its "dynamodb" dict, as the event source usually builds them
DefaultKeyOrder ==
    [top |-> <<"eventName", "eventSource", "dynamodb">>,
     dynamodb |-> <<"NewImage", "OldImage">>]

\* a stream record: its content and the insertion order of its keys
Record(src, name, new, old) ==
    [eventSource |-> src, eventName |-> name, NewImage |-> new, OldImage |-> old,
     key_order |-> DefaultKeyOrder]

_initial_metric ==
    [requested_count |-> 0, requested_size |-> 0,
     staged_count |-> 0, staged_size |-> 0,
     downloaded_count |-> 0, downloaded_size |-> 0]


------------------------------------------------------------------------------
(* _generate_client_request_token *)

\* The record as the Python dict it is: a sequence of entries in insertion
\* order.  A value is a string [str], a nested dict [dict] or an image [image];
\* the "OldImage" key exists only when the record has a before snapshot.
as_dict(record) ==
    LET images == [NewImage |-> Some(record.NewImage), OldImage |-> record.OldImage]
        present == SelectSeq(record.key_order.dynamodb, LAMBDA k : images[k] # None)
        dynamodb == [i \in 1..Len(present) |->
                        [key |-> present[i], value |-> [image |-> images[present[i]][1]]]]
    IN [i \in 1..Len(record.key_order.top) |->
          LET k == record.key_order.top[i]
          IN [key |-> k,
              value |-> IF k = "dynamodb" THEN [dict |-> dynamodb]
                        ELSE [str |-> record[k]]]]

\* the keys of a stream record in the order Python sorts strings
SortedKeys == <<"NewImage", "OldImage", "dynamodb", "eventName", "eventSource">>

\* the entries are written in insertion order
insertion_order(d) == d

RECURSIVE sort_keys(_)
\* json.dumps(..., sort_keys=True) of one dict: entries by key, at every depth
sort_keys(d) ==
    LET RECURSIVE by_rank(_)
        by_rank(n) ==
            IF n > Len(SortedKeys) THEN <<>>
            ELSE SelectSeq(d, LAMBDA e : e.key = SortedKeys[n]) \o by_rank(n + 1)
        sorted == by_rank(1)
    IN [i \in 1..Len(sorted) |->
          [key |-> sorted[i].key,
           value |-> IF "dict" \in DOMAIN sorted[i].value
                     THEN [dict |-> sort_keys(sorted[i].value.dict)]
                     ELSE sorted[i].value]]

\* json.dumps(records, sort_keys=True)
json_dumps(recs) == [i \in 1..Len(recs) |-> sort_keys(as_dict(recs[i]))]

\* hashlib.sha256(data).hexdigest(): 64 hex characters.  The digest is kept
\* symbolic: the characters at the 0-based positions `at` of sha256(data).
hexdigest(data) == [sha256 |-> data, at |-> [i \in 1..64 |-> i - 1]]

\* s[1::2]
every_other_from_one(s) == [i \in 1..(Len(s) \div 2) |-> s[2 * i]]

\* s[::2]
every_other(s) == [i \in 1..((Len(s) + 1) \div 2) |-> s[2 * i - 1]]

\* s[-4:]
last_four(s) == SubSeq(s, IF Len(s) > 4 THEN Len(s) - 3 ELSE 1, Len(s))

\* the token is made of the number of records alone
token_of_batch_length(recs) ==
    LET token == hexdigest(Len(recs))
    IN [sha256 |-> token.sha256, at |-> every_other(token.at) \o last_four(token.at)]

\* lines 55-58: token[::2] + token[-4:] of the digest of the dumped batch
_generate_client_request_token(recs) ==
    LET token == hexdigest(json_dumps(recs))
    IN [sha256 |-> token.sha256, at |-> every_other(token.at) \o last_four(token.at)]

------------------------------------------------------------------------------
(* increase_archive_status_metric_counter *)

\* retrieve_status.split("/")[-1]
last_segment(path) == path[Len(path)]

\* `size is not None`: a size of 0 is a size
size_is_not_none(s) == s # None

\* Python truthiness of an Optional[int] / Optional[str]
truthy_size(s) == s # None /\ s[1] # 0
truthy_id(a) == a # None /\ a[1] # ""

\* the retrieval type is not looked at
any_retrieval_type(new_metadata) == FALSE

not_archive_retrieval(new_metadata) ==
    new_metadata.retrieval_type # ARCHIVE_RETRIEVAL

unreadable_metadata(new_metadata) ==
    ~truthy_size(new_metadata.size) \/ ~truthy_id(new_metadata.archive_id)

\* a table that also counts the skipped stage REQUESTED -> DOWNLOADED
status_mapping_skipping(old_status, new_status) ==
    IF old_status = None /\ new_status = REQUESTED THEN Some(REQUESTED)
    ELSE IF old_status = Some(REQUESTED) /\ new_status = STAGED THEN Some(STAGED)
    ELSE IF old_status = Some(STAGED) /\ new_status = DOWNLOADED THEN Some(DOWNLOADED)
    ELSE IF old_status = Some(REQUESTED) /\ new_status = DOWNLOADED THEN Some(DOWNLOADED)
    ELSE None

\* a table that also counts an update that left the status as it was
status_mapping_repeating(old_status, new_status) ==
    IF old_status = None /\ new_status = REQUESTED THEN Some(REQUESTED)
    ELSE IF old_status = Some(REQUESTED) /\ new_status = STAGED THEN Some(STAGED)
    ELSE IF old_status = Some(STAGED) /\ new_status = DOWNLOADED THEN Some(DOWNLOADED)
    ELSE IF old_status = Some(new_status) /\ new_status \in {REQUESTED, STAGED, DOWNLOADED}
         THEN Some(new_status)
    ELSE None

\* status_mapping.get((old_status, new_status), None)
status_mapping(old_status, new_status) ==
    IF old_status = None /\ new_status = REQUESTED THEN Some(REQUESTED)
    ELSE IF old_status = Some(REQUESTED) /\ new_status = STAGED THEN Some(STAGED)
    ELSE IF old_status = Some(STAGED) /\ new_status = DOWNLOADED THEN Some(DOWNLOADED)
    ELSE None

\* self.workflow_run_metrics[workflow_run] of a defaultdict
metric_of(metrics, workflow_run) ==
    IF workflow_run \in DOMAIN metrics THEN metrics[workflow_run] ELSE _initial_metric

\* the size is assigned, not added
set_metric_size(m, result_status, size) ==
    CASE result_status = REQUESTED ->
           [m EXCEPT !.requested_count = @ + 1, !.requested_size = size]
      [] result_status = STAGED ->
           [m EXCEPT !.staged_count = @ + 1, !.staged_size = size]
      [] result_status = DOWNLOADED ->
           [m EXCEPT !.downloaded_count = @ + 1, !.downloaded_size = size]

\* the archive is moved from the counters of its previous status to the next
add_to_metric_moving(m, result_status, size) ==
    CASE result_status = REQUESTED ->
           [m EXCEPT !.requested_count = @ + 1, !.requested_size = @ + size]
      [] result_status = STAGED ->
           [m EXCEPT !.staged_count = @ + 1, !.staged_size = @ + size,
                     !.requested_count = @ - 1, !.requested_size = @ - size]
      [] result_status = DOWNLOADED ->
           [m EXCEPT !.downloaded_count = @ + 1, !.downloaded_size = @ + size,
                     !.staged_count = @ - 1, !.staged_size = @ - size]

\* [f"{result_status}_count"] += 1 ; [f"{result_status}_size"] += size
add_to_metric(m, result_status, size) ==
    CASE result_status = REQUESTED ->
           [m EXCEPT !.requested_count = @ + 1, !.requested_size = @ + size]
      [] result_status = STAGED ->
           [m EXCEPT !.staged_count = @ + 1, !.staged_size = @ + size]
      [] result_status = DOWNLOADED ->
           [m EXCEPT !.downloaded_count = @ + 1, !.downloaded_size = @ + size]

\* GlacierTransferModel(workflow_run, glacier_object_id).key["pk"]
archive_pk(new_metadata) == <<new_metadata.workflow_run, new_metadata.archive_id[1]>>

\* the metric of the workflow run is read from the defaultdict before the
\* transition is looked up, which gives every readable archive record an entry
increase_counter_reading_metric_first(self, new_image, old_image) ==
    IF not_archive_retrieval(new_image) THEN self
    ELSE IF unreadable_metadata(new_image) THEN self
    ELSE
      LET new_status == last_segment(new_image.retrieve_status)
          old_status == IF old_image # None
                        THEN Some(last_segment(old_image[1].retrieve_status))
                        ELSE None
          result_status == status_mapping(old_status, new_status)
          workflow_run == new_image.workflow_run
      IN [metrics |->
            [w \in DOMAIN self.metrics \cup {workflow_run} |->
               IF w = workflow_run
               THEN IF result_status # None
                    THEN add_to_metric(metric_of(self.metrics, w),
                                       result_status[1], new_image.size[1])
                    ELSE metric_of(self.metrics, w)
               ELSE self.metrics[w]],
          logs |-> IF result_status # None
                   THEN Append(self.logs,
                               [archive |-> archive_pk(new_image),
                                counted_status |-> new_status])
                   ELSE self.logs]

\* self is [metrics, logs]; old_image is an Optional image
increase_archive_status_metric_counter(self, new_image, old_image) ==
    IF not_archive_retrieval(new_image) THEN self
    ELSE IF unreadable_metadata(new_image) THEN self
    ELSE
      LET new_status == last_segment(new_image.retrieve_status)
          old_status == IF old_image # None
                        THEN Some(last_segment(old_image[1].retrieve_status))
                        ELSE None
          result_status == status_mapping(old_status, new_status)
          workflow_run == new_image.workflow_run
      IN IF result_status # None
         THEN [metrics |->
                 [w \in DOMAIN self.metrics \cup {workflow_run} |->
                    IF w = workflow_run
                    THEN add_to_metric(metric_of(self.metrics, w),
                                       result_status[1], new_image.size[1])
                    ELSE self.metrics[w]],
               logs |-> Append(self.logs,
                               [archive |-> archive_pk(new_image),
                                counted_status |-> new_status])]
         ELSE self

\* the source of the event is not looked at
handle_record_any_source(self, record) ==
    IF record.eventName = "INSERT"
    THEN increase_archive_status_metric_counter(self, record.NewImage, None)
    ELSE IF record.eventName = "MODIFY"
         THEN increase_archive_status_metric_counter(
                  self, record.NewImage, record.OldImage)
         ELSE self

\* one iteration of the loop of handle_archive_status_changed
handle_record(self, record) ==
    IF record.eventSource = "aws:dynamodb"
    THEN IF record.eventName = "INSERT"
         THEN increase_archive_status_metric_counter(self, record.NewImage, None)
         ELSE IF record.eventName = "MODIFY"
              THEN increase_archive_status_metric_counter(
                       self, record.NewImage, record.OldImage)
              ELSE self
    ELSE self

\* state of a freshly constructed controller
new_controller == [metrics |-> <<>>, logs |-> <<>>]

RECURSIVE classify_all(_, _)
\* the whole loop of handle_archive_status_changed over recs, from state self
classify_all(self, recs) ==
    IF recs = <<>> THEN self
    ELSE classify_all(handle_record(self, Head(recs)), Tail(recs))

------------------------------------------------------------------------------
(* update_metric_query: the transaction one attempt submits *)

\* the sizes written to the count attributes and the counts to the size attributes
update_expression_swapped(metrics) ==
    [count_requested |-> metrics.requested_size,
     size_requested |-> metrics.requested_count,
     count_staged |-> metrics.staged_size,
     size_staged |-> metrics.staged_count,
     count_downloaded |-> metrics.downloaded_size,
     size_downloaded |-> metrics.downloaded_count]

\* lines 85-101: f"{attribute_type}_{attribute_status} :update_{status}_{type}"
\* with the value metrics[f"{status}_{type}"] (a DynamoDB number)
update_expression(metrics) ==
    [count_requested |-> metrics.requested_count,
     size_requested |-> metrics.requested_size,
     count_staged |-> metrics.staged_count,
     size_staged |-> metrics.staged_size,
     count_downloaded |-> metrics.downloaded_count,
     size_downloaded |-> metrics.downloaded_size]

\* lines 80-114: one Update per key of workflow_run_metrics
transact_items(metrics) ==
    {[Key |-> w, ADD |-> update_expression(metrics[w])] : w \in DOMAIN metrics}

RECURSIVE one_call_per_item(_, _)
one_call_per_item(items, token) ==
    IF items = {} THEN <<>>
    ELSE LET u == CHOOSE i \in items : TRUE
         IN <<[TransactItems |-> {u}, ClientRequestToken |-> token]>>
            \o one_call_per_item(items \ {u}, token)

\* a transact_write_items call for every workflow run instead of one for all
store_calls_per_run(metrics, token) == one_call_per_item(transact_items(metrics), token)

\* the transaction is submitted even when it has no item
store_calls_unguarded(metrics, token) ==
    <<[TransactItems |-> transact_items(metrics), ClientRequestToken |-> token]>>

\* lines 116-120: the calls one attempt makes to the table, in order
store_calls(metrics, token) ==
    IF transact_items(metrics) # {}
    THEN <<[TransactItems |-> transact_items(metrics), ClientRequestToken |-> token]>>
    ELSE <<>>

\* @retry(max_retries=10, raise_exception=True)
max_retries == 10

\* the wrapper returns quietly once the attempts are used up
raise_exception_off == FALSE

raise_exception == TRUE

------------------------------------------------------------------------------
(* The metric table *)

empty_row ==
    [count_requested |-> 0, size_requested |-> 0,
     count_staged |-> 0, size_staged |-> 0,
     count_downloaded |-> 0, size_downloaded |-> 0]

add_row(row, add) ==
    [count_requested |-> row.count_requested + add.count_requested,
     size_requested |-> row.size_requested + add.size_requested,
     count_staged |-> row.count_staged + add.count_staged,
     size_staged |-> row.size_staged + add.size_staged,
     count_downloaded |-> row.count_downloaded + add.count_downloaded,
     size_downloaded |-> row.size_downloaded + add.size_downloaded]

RECURSIVE apply_items(_, _)
\* all Updates of one transaction, applied together
apply_items(table, items) ==
    IF items = {} THEN table
    ELSE LET u == CHOOSE i \in items : TRUE
         IN apply_items([table EXCEPT ![u.Key] = add_row(@, u.ADD)], items \ {u})

\* what the table answers to a request: "applied", "already_applied" (same
\* token, same content) or "mismatch" (same token, other content)
store_answer(tokens, request) ==
    IF \E t \in tokens : t.ClientRequestToken = request.ClientRequestToken
    THEN IF request \in tokens THEN "already_applied" ELSE "mismatch"
    ELSE "applied"

store_after(table, tokens, request) ==
    IF store_answer(tokens, request) = "applied"
    THEN apply_items(table, request.TransactItems)
    ELSE table

tokens_after(tokens, request) ==
    IF store_answer(tokens, request) = "applied" THEN tokens \cup {request} ELSE tokens

------------------------------------------------------------------------------
(* The batches an invocation is given *)

Sources == {"aws:dynamodb", "aws:s3"}
RetrievalTypes == {ARCHIVE_RETRIEVAL, "inventory-retrieval"}
Sizes == {None} \cup {Some(n) : n \in 0..MaxSize}
ArchiveIds == {None, Some("a1")}
Statuses == {REQUESTED, STAGED, DOWNLOADED, "stopped"}

status_path(w, s) == <<w, s>>

Images ==
    {Image(w, t, s, a, status_path(w, st)) :
        w \in WorkflowRuns, t \in RetrievalTypes, s \in Sizes, a \in ArchiveIds,
        st \in Statuses}

OldImages(new) ==
    {Some([new EXCEPT !.retrieve_status = status_path(new.workflow_run, st)]) :
        st \in Statuses}

\* every stream record over the value sets above
AllRecords ==
    {Record(src, "INSERT", new, None) : src \in Sources, new \in Images}
    \cup UNION {{Record(src, name, new, old) :
                    src \in Sources, name \in {"MODIFY", "REMOVE"},
                    old \in OldImages(new)} : new \in Images}

good(w, n, a) == Image(w, ARCHIVE_RETRIEVAL, Some(n), Some(a), status_path(w, REQUESTED))
with_status(img, st) == [img EXCEPT !.retrieve_status = status_path(img.workflow_run, st)]
modify(new, oldst) == Record("aws:dynamodb", "MODIFY", new, Some(with_status(new, oldst)))
insert(new) == Record("aws:dynamodb", "INSERT", new, None)

\* the records longer batches are made of
BatchRecords ==
    {insert(good("w1", 1, "a1")),
     insert(good("w1", 2, "a2")),
     insert(good("w2", 2, "a3")),
     modify(with_status(good("w1", 1, "a1"), STAGED), REQUESTED),
     modify(with_status(good("w2", 2, "a3"), DOWNLOADED), STAGED),
     modify(with_status(good("w1", 1, "a1"), DOWNLOADED), REQUESTED),
     insert([good("w1", 1, "a1") EXCEPT !.size = None]),
     insert([good("w1", 1, "a1") EXCEPT !.archive_id = None])}

SeqsUpTo(S, n) == UNION {[1..k -> S] : k \in 0..n}

\* batches of an invocation that is followed through its commit
Batches == SeqsUpTo(BatchRecords, MaxBatch)

\* batches whose last record is any record at all, for the classification alone
ClassifyBatches ==
    {<<r>> : r \in AllRecords}
    \cup {<<insert(good("w1", 1, "a1")), r>> : r \in AllRecords}

------------------------------------------------------------------------------
(* The invocation *)

\* lines 37-43: __init__ on a batch of batch_set
Constructed(batch_set) ==
    /\ records \in batch_set
    /\ client_request_token = _generate_client_request_token(records)
    /\ workflow_run_metrics = <<>>
    /\ counted_logs = <<>>
    /\ idx = 1
    /\ pc = "loop"
    /\ retries = 0
    /\ pending = <<>>
    /\ response = "none"
    /\ calls = 1

\* a table nothing was written to, and an empty log
FreshTable ==
    /\ store = [w \in WorkflowRuns |-> empty_row]
    /\ store_tokens = {}
    /\ logged = <<>>

\* one invocation on a batch of batch_set, alone, before a fresh table
Start(batch_set) ==
    /\ Constructed(batch_set)
    /\ FreshTable
    /\ later = <<>>
    /\ peer = None

Init == Start(Batches)

InitClassify == Start(ClassifyBatches)

\* the loop is left at the first record whose metadata cannot be read
HandleRecordStopsAtUnreadable ==
    /\ pc = "loop"
    /\ idx <= Len(records)
    /\ LET self == handle_record([metrics |-> workflow_run_metrics, logs |-> counted_logs],
                                 records[idx])
       IN /\ workflow_run_metrics' = self.metrics
          /\ counted_logs' = self.logs
    /\ idx' = IF unreadable_metadata(records[idx].NewImage) THEN Len(records) + 1
              ELSE idx + 1
    /\ UNCHANGED <<records, client_request_token, pc, retries, pending, store,
                   store_tokens, response, logged>>
    /\ UNCHANGED <<calls, later, peer>>

\* lines 61-70: one iteration of the for loop
HandleRecord ==
    /\ pc = "loop"
    /\ idx <= Len(records)
    /\ LET self == handle_record([metrics |-> workflow_run_metrics, logs |-> counted_logs],
                                 records[idx])
       IN /\ workflow_run_metrics' = self.metrics
          /\ counted_logs' = self.logs
    /\ idx' = idx + 1
    /\ UNCHANGED <<records, client_request_token, pc, retries, pending, store,
                   store_tokens, response, logged>>
    /\ UNCHANGED <<calls, later, peer>>

\* line 71: the loop is over, update_metric_query is called
CallUpdateMetricQuery ==
    /\ pc = "loop"
    /\ idx > Len(records)
    /\ pc' = "attempt"
    /\ UNCHANGED <<records, client_request_token, workflow_run_metrics, counted_logs,
                   idx, retries, pending, store, store_tokens, response, logged>>
    /\ UNCHANGED <<calls, later, peer>>

\* the counted lines are logged before the transaction is submitted
BeginAttemptLogsFirst ==
    /\ pc = "attempt"
    /\ IF records # <<>>
       THEN /\ pending' = store_calls(workflow_run_metrics, client_request_token)
            /\ logged' = logged \o counted_logs
            /\ pc' = "call"
       ELSE /\ pending' = <<>>
            /\ logged' = logged
            /\ pc' = "done"
    /\ UNCHANGED <<records, client_request_token, workflow_run_metrics, counted_logs,
                   idx, retries, store, store_tokens, response>>
    /\ UNCHANGED <<calls, later, peer>>

\* every attempt submits under a token of its own
BeginAttemptFreshToken ==
    /\ pc = "attempt"
    /\ IF records # <<>>
       THEN /\ pending' = store_calls(workflow_run_metrics,
                                      [sha256 |-> records, attempt |-> retries])
            /\ pc' = "call"
       ELSE /\ pending' = <<>>
            /\ pc' = "done"
    /\ UNCHANGED <<records, client_request_token, workflow_run_metrics, counted_logs,
                   idx, retries, store, store_tokens, response, logged>>
    /\ UNCHANGED <<calls, later, peer>>

\* every attempt runs the classification again before it builds its transaction
BeginAttemptReclassifies ==
    /\ pc = "attempt"
    /\ LET self == classify_all([metrics |-> workflow_run_metrics,
                                 logs |-> counted_logs], records)
       IN /\ workflow_run_metrics' = self.metrics
          /\ counted_logs' = self.logs
          /\ IF records # <<>>
             THEN /\ pending' = store_calls(self.metrics, client_request_token)
                  /\ pc' = "call"
             ELSE /\ pending' = <<>>
                  /\ pc' = "done"
    /\ UNCHANGED <<records, client_request_token, idx, retries, store, store_tokens,
                   response, logged>>
    /\ UNCHANGED <<calls, later, peer>>

\* lines 75-114: an attempt starts and builds its transaction
BeginAttempt ==
    /\ pc = "attempt"
    /\ IF records # <<>>
       THEN /\ pending' = store_calls(workflow_run_metrics, client_request_token)
            /\ pc' = "call"
       ELSE /\ pending' = <<>>
            /\ pc' = "done"
    /\ UNCHANGED <<records, client_request_token, workflow_run_metrics, counted_logs,
                   idx, retries, store, store_tokens, response, logged>>
    /\ UNCHANGED <<calls, later, peer>>

\* the retry wrapper after an attempt raised
pc_after_raise(n) ==
    IF n < max_retries THEN "attempt"
    ELSE IF raise_exception THEN "failed" ELSE "done"

Raise ==
    /\ retries' = retries + 1
    /\ pending' = <<>>
    /\ pc' = pc_after_raise(retries + 1)

\* a refusal of the table is swallowed and the attempt goes on
TransactWriteItemsIgnoresMismatch ==
    /\ pc = "call"
    /\ pending # <<>>
    /\ response' = store_answer(store_tokens, Head(pending))
    /\ store' = store_after(store, store_tokens, Head(pending))
    /\ store_tokens' = tokens_after(store_tokens, Head(pending))
    /\ pending' = Tail(pending)
    /\ UNCHANGED <<pc, retries>>
    /\ UNCHANGED <<records, client_request_token, workflow_run_metrics, counted_logs,
                   idx, logged>>
    /\ UNCHANGED <<calls, later, peer>>

\* lines 117-120: transact_write_items answers
TransactWriteItems ==
    /\ pc = "call"
    /\ pending # <<>>
    /\ response' = store_answer(store_tokens, Head(pending))
    /\ store' = store_after(store, store_tokens, Head(pending))
    /\ store_tokens' = tokens_after(store_tokens, Head(pending))
    /\ IF response' = "mismatch"
       THEN Raise
       ELSE /\ pending' = Tail(pending)
            /\ UNCHANGED <<pc, retries>>
    /\ UNCHANGED <<records, client_request_token, workflow_run_metrics, counted_logs,
                   idx, logged>>
    /\ UNCHANGED <<calls, later, peer>>

\* transact_write_items fails before the table saw the request
TransactWriteItemsFails ==
    /\ pc = "call"
    /\ pending # <<>>
    /\ response' = "error"
    /\ Raise
    /\ UNCHANGED <<records, client_request_token, workflow_run_metrics, counted_logs,
                   idx, store, store_tokens, logged>>
    /\ UNCHANGED <<calls, later, peer>>

\* the table handled the request (applied or refused it) but the answer never
\* arrived
TransactWriteItemsAnswerLost ==
    /\ pc = "call"
    /\ pending # <<>>
    /\ store' = store_after(store, store_tokens, Head(pending))
    /\ store_tokens' = tokens_after(store_tokens, Head(pending))
    /\ response' = "lost"
    /\ Raise
    /\ UNCHANGED <<records, client_request_token, workflow_run_metrics, counted_logs,
                   idx, logged>>
    /\ UNCHANGED <<calls, later, peer>>

\* lines 122-123: the counted lines are logged and the attempt returns
LogCounted ==
    /\ pc = "call"
    /\ pending = <<>>
    /\ logged' = logged \o counted_logs
    /\ pc' = "done"
    /\ UNCHANGED <<records, client_request_token, workflow_run_metrics, counted_logs,
                   idx, retries, pending, store, store_tokens, response>>
    /\ UNCHANGED <<calls, later, peer>>

Next ==
    \/ HandleRecord
    \/ CallUpdateMetricQuery
    \/ BeginAttempt
    \/ TransactWriteItems
    \/ TransactWriteItemsFails
    \/ TransactWriteItemsAnswerLost
    \/ LogCounted

Spec == Init /\ [][Next]_vars

FairSpec == Spec /\ WF_vars(Next)

\* the loop of handle_archive_status_changed alone, over every kind of record
NextClassify ==
    \/ HandleRecord
    \/ CallUpdateMetricQuery

SpecClassify == InitClassify /\ [][NextClassify]_vars

------------------------------------------------------------------------------
(* Two invocations at once *)

\* what an invocation keeps for itself; the table is shared
this_invocation ==
    [records |-> records, client_request_token |-> client_request_token,
     workflow_run_metrics |-> workflow_run_metrics, counted_logs |-> counted_logs,
     idx |-> idx, pc |-> pc, retries |-> retries, pending |-> pending,
     response |-> response]

\* __init__ of the other invocation, which has not run yet
waiting_invocation(batch) ==
    [records |-> batch,
     client_request_token |-> _generate_client_request_token(batch),
     workflow_run_metrics |-> <<>>, counted_logs |-> <<>>,
     idx |-> 1, pc |-> "loop", retries |-> 0, pending |-> <<>>,
     response |-> "none"]

\* the running invocation is suspended between two of its steps and the
\* other one goes on where it was
Switch ==
    /\ peer # None
    /\ peer' = Some(this_invocation)
    /\ records' = peer[1].records
    /\ client_request_token' = peer[1].client_request_token
    /\ workflow_run_metrics' = peer[1].workflow_run_metrics
    /\ counted_logs' = peer[1].counted_logs
    /\ idx' = peer[1].idx
    /\ pc' = peer[1].pc
    /\ retries' = peer[1].retries
    /\ pending' = peer[1].pending
    /\ response' = peer[1].response
    /\ UNCHANGED <<store, store_tokens, logged, calls, later>>

\* batches for two invocations: two with equal deltas from different
\* archives, one on both workflow runs, one on the other run alone
ConcurrentBatches ==
    <<<<insert(good("w1", 1, "a1"))>>,
      <<insert(good("w1", 1, "a4"))>>,
      <<insert(good("w2", 2, "a3")),
        modify(with_status(good("w1", 1, "a1"), STAGED), REQUESTED)>>,
      <<insert(good("w2", 2, "a3"))>>>>

InitConcurrent ==
    /\ \E i, j \in 1..Len(ConcurrentBatches) :
           /\ i < j
           /\ Constructed({ConcurrentBatches[i]})
           /\ peer = Some(waiting_invocation(ConcurrentBatches[j]))
    /\ FreshTable
    /\ later = <<>>

NextConcurrent == Next \/ Switch

SpecConcurrent == InitConcurrent /\ [][NextConcurrent]_vars

------------------------------------------------------------------------------
(* Batches whose record dicts were built in any key order *)

MaxTokenBatch == 2

Orderings(s) ==
    {p \in [1..Len(s) -> {s[i] : i \in 1..Len(s)}] :
        \A i, j \in 1..Len(s) : p[i] = p[j] => i = j}

KeyOrders ==
    {[top |-> t, dynamodb |-> d] :
        t \in Orderings(DefaultKeyOrder.top),
        d \in Orderings(DefaultKeyOrder.dynamodb)}

with_key_order(record, order) == [record EXCEPT !.key_order = order]

TokenRecords ==
    {with_key_order(r, o) :
        r \in {insert(good("w1", 1, "a1")),
               modify(with_status(good("w1", 1, "a1"), STAGED), REQUESTED)},
        o \in KeyOrders}

TokenBatches == SeqsUpTo(TokenRecords, MaxTokenBatch)

InitToken == Start(TokenBatches)

SpecToken == InitToken /\ [][NextClassify]_vars

------------------------------------------------------------------------------
(* A table that already took a transaction under the token of the batch *)

\* what the earlier transaction may have contained
EarlierItems ==
    {{[Key |-> "w2", ADD |-> [empty_row EXCEPT !.count_requested = 1,
                                               !.size_requested = 2]]},
     {[Key |-> "w1", ADD |-> [empty_row EXCEPT !.count_staged = 1,
                                               !.size_staged = 1]]}}

MaxShortBatch == 2

ShortBatches == SeqsUpTo(BatchRecords, MaxShortBatch)

InitCollision ==
    /\ Constructed(ShortBatches)
    /\ \E items \in EarlierItems :
          /\ store_tokens = {[TransactItems |-> items,
                              ClientRequestToken |-> client_request_token]}
          /\ store = apply_items([w \in WorkflowRuns |-> empty_row], items)
    /\ logged = <<>>
    /\ later = <<>>
    /\ peer = None

SpecCollision == InitCollision /\ [][Next]_vars

FairSpecCollision == SpecCollision /\ WF_vars(Next)

------------------------------------------------------------------------------
(* Any one record, followed through the commit *)

\* every record alone, or after a record that is not counted
EdgeBatches ==
    {<<>>}
    \cup {<<r>> : r \in AllRecords}
    \cup {<<u, r>> :
            u \in {modify(with_status(good("w1", 1, "a1"), DOWNLOADED), REQUESTED),
                   insert([good("w1", 1, "a1") EXCEPT !.size = None])},
            r \in AllRecords}

InitEdge == Start(EdgeBatches)

SpecEdge == InitEdge /\ [][Next]_vars

------------------------------------------------------------------------------
(* The change stream of one transfer record, delivered batch after batch *)

MaxEvents == 4

\* the status after s on the way REQUESTED -> STAGED -> DOWNLOADED
next_status(s) == IF s = REQUESTED THEN STAGED ELSE DOWNLOADED

\* the statuses the record has after each of its n changes: created as
\* REQUESTED, then every change keeps the status or moves it one step on
Lives(n) ==
    {f \in [1..n -> {REQUESTED, STAGED, DOWNLOADED}] :
        /\ f[1] = REQUESTED
        /\ \A i \in 1..(n - 1) : f[i + 1] \in {f[i], next_status(f[i])}}

\* the events the table's stream emits for such a life of the record img
events_of(img, f) ==
    [i \in 1..Len(f) |->
        IF i = 1 THEN insert(img)
        ELSE modify(with_status(img, f[i]), f[i - 1])]

\* f cut into consecutive batches after the positions in cuts
RECURSIVE batches_of(_, _, _)
batches_of(events, cuts, from) ==
    IF from > Len(events) THEN <<>>
    ELSE LET to == IF \E c \in cuts : c >= from
                   THEN CHOOSE c \in cuts : c >= from /\ \A d \in cuts : d >= from => c <= d
                   ELSE Len(events)
         IN <<SubSeq(events, from, to)>> \o batches_of(events, cuts, to + 1)

\* every way the stream of one record can reach the invocations
Deliveries ==
    UNION {{batches_of(events_of(good(w, n, "a1"), f), cuts, 1) :
               f \in Lives(k), cuts \in SUBSET (1..(k - 1)),
               w \in WorkflowRuns, n \in 1..MaxSize} : k \in 1..MaxEvents}

InitStream ==
    /\ \E d \in Deliveries :
          /\ Constructed({Head(d)})
          /\ later = Tail(d)
    /\ FreshTable
    /\ peer = None

\* the invocation is over and the next batch of the stream starts a new one
StartNextInvocation ==
    /\ pc \in {"done", "failed"}
    /\ later # <<>>
    /\ records' = Head(later)
    /\ client_request_token' = _generate_client_request_token(Head(later))
    /\ workflow_run_metrics' = <<>>
    /\ counted_logs' = <<>>
    /\ idx' = 1
    /\ pc' = "loop"
    /\ retries' = 0
    /\ pending' = <<>>
    /\ response' = "none"
    /\ calls' = 1
    /\ later' = Tail(later)
    /\ UNCHANGED <<store, store_tokens, logged, peer>>

NextStream == Next \/ StartNextInvocation

SpecStream == InitStream /\ [][NextStream]_vars

------------------------------------------------------------------------------
(* handle_archive_status_changed called again on the same instance *)

MaxCalls == 2

InitRecall == Start(ShortBatches)

\* lines 60-61: the method is entered again; the loop starts over the same
\* self.records and the retry wrapper starts counting anew, while
\* workflow_run_metrics, counted_logs and client_request_token are what the
\* call before left in the instance
CallAgain ==
    /\ pc \in {"done", "failed"}
    /\ calls < MaxCalls
    /\ calls' = calls + 1
    /\ idx' = 1
    /\ pc' = "loop"
    /\ retries' = 0
    /\ pending' = <<>>
    /\ UNCHANGED <<records, client_request_token, workflow_run_metrics, counted_logs,
                   store, store_tokens, response, logged, later, peer>>

NextRecall == Next \/ CallAgain

SpecRecall == InitRecall /\ [][NextRecall]_vars

------------------------------------------------------------------------------
(* Vocabulary of the properties *)

\* the record is passed to increase_archive_status_metric_counter
Processed(r) == r.eventSource = "aws:dynamodb" /\ r.eventName \in {"INSERT", "MODIFY"}

\* oldStatus and newStatus of a record: last path segments; none for a created record
OldStatus(r) ==
    IF r.eventName = "INSERT" \/ r.OldImage = None THEN None
    ELSE Some(r.OldImage[1].retrieve_status[Len(r.OldImage[1].retrieve_status)])
NewStatus(r) == r.NewImage.retrieve_status[Len(r.NewImage.retrieve_status)]

RecognizedTransitions ==
    {<<None, REQUESTED>>, <<Some(REQUESTED), STAGED>>, <<Some(STAGED), DOWNLOADED>>}
Recognized(r) == <<OldStatus(r), NewStatus(r)>> \in RecognizedTransitions

IsArchive(r) == r.NewImage.retrieval_type = "archive-retrieval"
HasSizeAndId(r) == r.NewImage.size # None /\ r.NewImage.archive_id # None

\* the counters a delta should put in a row of the table
ExpectedRow(m) ==
    [count_requested |-> m.requested_count, size_requested |-> m.requested_size,
     count_staged |-> m.staged_count, size_staged |-> m.staged_size,
     count_downloaded |-> m.downloaded_count, size_downloaded |-> m.downloaded_size]

\* the deltas of the whole batch
Delta == classify_all(new_controller, records).metrics
RowIn(d, w) == IF w \in DOMAIN d THEN ExpectedRow(d[w]) ELSE empty_row
DeltaRow(w) == RowIn(Delta, w)

NoneApplied == \A w \in WorkflowRuns : store[w] = empty_row
AllApplied == LET d == Delta IN \A w \in WorkflowRuns : store[w] = RowIn(d, w)

\* a step of the loop that handles records[idx]
LoopStep == pc = "loop" /\ idx <= Len(records) /\ idx' = idx + 1
NoEffect ==
    workflow_run_metrics' = workflow_run_metrics /\ counted_logs' = counted_logs

------------------------------------------------------------------------------
(* C1: against a table that deduplicates by ClientRequestToken, whatever    *)
(* attempts fail (also after the table applied the transaction), every row  *)
(* holds the batch's delta at most once, and exactly once when the          *)
(* invocation has returned.                                                 *)
C1_AppliedAtMostOnce ==
    \A w \in WorkflowRuns :
        /\ store[w] = empty_row \/ store[w] = DeltaRow(w)
        /\ pc = "done" => store[w] = DeltaRow(w)

\* the invocation returned after a retry whose submission the table deduplicated
C1_Witness ==
    /\ pc = "done"
    /\ retries >= 1
    /\ response = "already_applied"
    /\ store["w1"] # empty_row

(* C2: an attempt makes at most one transact_write_items call; the call     *)
(* carries exactly one ADD update per touched workflow run, each over the   *)
(* six counters; the table holds the increments of all runs or of none.     *)
C2_SingleAtomicTransaction ==
    /\ Len(pending) <= 1
    /\ \A i \in 1..Len(pending) :
          /\ \A w \in DOMAIN workflow_run_metrics :
                Cardinality({u \in pending[i].TransactItems : u.Key = w}) = 1
          /\ \A u \in pending[i].TransactItems :
                /\ u.Key \in DOMAIN workflow_run_metrics
                /\ DOMAIN u.ADD = {"count_requested", "size_requested", "count_staged",
                                   "size_staged", "count_downloaded", "size_downloaded"}
    /\ NoneApplied \/ AllApplied

\* a batch touching two workflow runs has been committed
C2_Witness ==
    /\ DOMAIN workflow_run_metrics = {"w1", "w2"}
    /\ store["w1"] # empty_row
    /\ store["w2"] # empty_row

(* C3 as stated: the invocation returns with every delta applied and every  *)
(* audit line emitted, or raises with nothing incremented and no line       *)
(* emitted.                                                                 *)
C3_LandsOrNothing ==
    /\ pc = "done" => AllApplied /\ logged = counted_logs
    /\ pc = "failed" => NoneApplied /\ logged = <<>>

(* C3 amended: the invocation returns with every delta applied and every    *)
(* audit line emitted, or raises with no line emitted and the table holding *)
(* none of the batch's increments or all of them, once.                     *)
C3_LandsOrRaises ==
    /\ pc = "done" => AllApplied /\ logged = counted_logs
    /\ pc = "failed" => (NoneApplied \/ AllApplied) /\ logged = <<>>

\* the invocation raised although the table had applied the transaction
C3_Witness ==
    /\ pc = "failed"
    /\ AllApplied
    /\ ~NoneApplied

(* C4: a processed record whose (oldStatus, newStatus) is none of           *)
(* (none, REQUESTED), (REQUESTED, STAGED), (STAGED, DOWNLOADED) changes no  *)
(* counter of any workflow run and queues no audit line.                    *)
C4_UnrecognizedNoEffect ==
    [][LoopStep /\ Processed(records[idx]) /\ ~Recognized(records[idx]) => NoEffect]_vars

\* after a counted record, a readable archive record with an unrecognized
\* transition has been handled
C4_Witness ==
    /\ pc = "loop"
    /\ idx = 3
    /\ Processed(records[2]) /\ IsArchive(records[2]) /\ HasSizeAndId(records[2])
    /\ records[2].NewImage.size # Some(0)
    /\ <<OldStatus(records[2]), NewStatus(records[2])>> = <<Some(REQUESTED), DOWNLOADED>>
    /\ Len(counted_logs) = 1

\* records i of the batch that count as status S for workflow run W: an
\* archive-retrieval record of W with a record id, a size that is any
\* non-negative integer, and the recognized transition into S
CountedAs(W, S) ==
    {i \in 1..Len(records) :
        /\ Processed(records[i]) /\ IsArchive(records[i])
        /\ records[i].NewImage.workflow_run = W
        /\ records[i].NewImage.archive_id # None
        /\ records[i].NewImage.size # None /\ records[i].NewImage.size[1] >= 0
        /\ Recognized(records[i]) /\ NewStatus(records[i]) = S}

RECURSIVE SizeSum(_)
SizeSum(I) ==
    IF I = {} THEN 0
    ELSE LET i == CHOOSE j \in I : TRUE
         IN records[i].NewImage.size[1] + SizeSum(I \ {i})

CountOf(m, S) ==
    CASE S = REQUESTED -> m.requested_count
      [] S = STAGED -> m.staged_count
      [] S = DOWNLOADED -> m.downloaded_count
SizeOf(m, S) ==
    CASE S = REQUESTED -> m.requested_size
      [] S = STAGED -> m.staged_size
      [] S = DOWNLOADED -> m.downloaded_size

(* C5: after the fold, S_count of W is the number of archive-retrieval      *)
(* records of W with a record id, any non-negative size and a recognized    *)
(* transition counted as S, and S_size of W is the sum of their sizes.      *)
C5_FoldCountsEveryNonNegativeSize ==
    pc = "attempt" =>
        \A W \in WorkflowRuns : \A S \in {REQUESTED, STAGED, DOWNLOADED} :
            /\ CountOf(metric_of(workflow_run_metrics, W), S) = Cardinality(CountedAs(W, S))
            /\ SizeOf(metric_of(workflow_run_metrics, W), S) = SizeSum(CountedAs(W, S))

\* the permutations of the batch
Reorderings(recs) ==
    {[i \in 1..Len(recs) |-> recs[f[i]]] : f \in Permutations(1..Len(recs))}

(* C6: every permutation of the batch's records accumulates the same        *)
(* per-workflow-run deltas: the same runs with the same six values.         *)
C6_OrderIndependent ==
    pc = "attempt" /\ retries = 0 =>
        \A p \in Reorderings(records) :
            classify_all(new_controller, p).metrics = workflow_run_metrics

\* a batch that counts two different records of one run under the same status
C6_Witness ==
    /\ pc = "attempt"
    /\ Len(records) = 3
    /\ records[1] # records[2]
    /\ "w1" \in DOMAIN workflow_run_metrics
    /\ workflow_run_metrics["w1"].requested_count = 2
    /\ workflow_run_metrics["w1"].requested_size = 3

\* a malformed record: an archive-retrieval image without size or record id
Malformed(r) == Processed(r) /\ IsArchive(r) /\ ~HasSizeAndId(r)
Valid(r) == Processed(r) /\ IsArchive(r) /\ HasSizeAndId(r)
Without(recs, i) == SubSeq(recs, 1, i - 1) \o SubSeq(recs, i + 1, Len(recs))
OneMalformedAt(i) ==
    /\ Malformed(records[i])
    /\ \A j \in 1..Len(records) \ {i} :
          /\ Valid(records[j])
          /\ \A k \in 1..Len(records) \ {i} :
                records[j].NewImage.workflow_run = records[k].NewImage.workflow_run

(* C7: one malformed record at any position among valid records of one      *)
(* workflow run leaves the deltas of the valid records alone; handling it   *)
(* raises nothing and the records after it are still handled.               *)
C7_MalformedSkipped ==
    \A i \in 1..Len(records) :
        OneMalformedAt(i) =>
            /\ pc = "loop" => idx <= Len(records) + 1
            /\ pc = "failed" => retries > 0
            /\ pc # "loop" =>
                  /\ idx = Len(records) + 1
                  /\ workflow_run_metrics
                        = classify_all(new_controller, Without(records, i)).metrics
                  /\ counted_logs
                        = classify_all(new_controller, Without(records, i)).logs

\* the malformed record was in the middle and both valid records were counted
C7_Witness ==
    /\ pc = "attempt"
    /\ Len(records) = 3
    /\ OneMalformedAt(2)
    /\ Len(counted_logs) = 2

(* C8: a record whose after image is not an archive retrieval changes no    *)
(* counter and queues no audit line, whatever its old and new status and    *)
(* whether or not its size and record id are present.                       *)
C8_OtherKindsNoEffect ==
    [][LoopStep /\ ~IsArchive(records[idx]) => NoEffect]_vars

\* after a counted record, an inventory record with size, id and a recognized
\* transition has been handled
C8_Witness ==
    /\ pc = "loop"
    /\ idx = 3
    /\ Processed(records[2]) /\ ~IsArchive(records[2]) /\ HasSizeAndId(records[2])
    /\ records[2].NewImage.size # Some(0)
    /\ Recognized(records[2])
    /\ Len(counted_logs) = 1

\* a record the code counts: handled, archive retrieval, size and id truthy,
\* recognized transition
Counted(r) ==
    /\ Processed(r) /\ IsArchive(r) /\ HasSizeAndId(r)
    /\ r.NewImage.size # Some(0) /\ r.NewImage.archive_id # Some("")
    /\ Recognized(r)

RECURSIVE CountedLines(_)
\* the audit lines of a batch: one per counted record, in the order of the batch
CountedLines(recs) ==
    IF recs = <<>> THEN <<>>
    ELSE (IF Counted(Head(recs))
          THEN <<[archive |-> <<Head(recs).NewImage.workflow_run,
                                Head(recs).NewImage.archive_id[1]>>,
                  counted_status |-> NewStatus(Head(recs))]>>
          ELSE <<>>) \o CountedLines(Tail(recs))

Accepted == \E t \in store_tokens : t.ClientRequestToken = client_request_token

(* C9: no counted-status line is emitted before the table accepted the      *)
(* transaction; when the invocation returns, exactly one line per counted   *)
(* record has been emitted, in classification order, once in total however  *)
(* many attempts were made.                                                 *)
C9_AuditAfterCommit ==
    /\ logged # <<>> => Accepted
    /\ logged \in {<<>>, CountedLines(records)}
    /\ pc = "done" => logged = CountedLines(records)

\* the invocation returned on a later attempt and emitted its lines once
C9_Witness ==
    /\ pc = "done"
    /\ retries >= 2
    /\ Len(logged) = 2
    /\ Len(CountedLines(records)) = 2

Finished == pc \in {"done", "failed"}

(* C10: every invocation terminates; the commit is attempted at most 10     *)
(* times, a failure of an attempt before the last leads to another attempt, *)
(* and when every attempt failed the error is raised to the caller.         *)
C10_BoundedRetryThenRaise ==
    /\ [](retries <= 10)
    /\ [][retries' = retries + 1 /\ retries' < 10 => pc' = "attempt"]_vars
    /\ [][retries' = retries + 1 /\ retries' = 10 => pc' = "failed"]_vars
    /\ [](pc = "failed" <=> retries = 10)
    /\ [](pc = "attempt" => retries < 10)
    /\ <>Finished

\* ten attempts failed and the invocation raised
C10_Witness ==
    /\ pc = "failed"
    /\ retries = 10
    /\ response = "error"

------------------------------------------------------------------------------
(* C11: concurrent invocations *)

DeltaOf(recs) == classify_all(new_controller, recs).metrics

\* the table accepted the transaction submitted under this token
Applied(token) == \E t \in store_tokens : t.ClientRequestToken = token

AppliedRow(inv, w) ==
    IF Applied(inv.client_request_token) THEN RowIn(DeltaOf(inv.records), w)
    ELSE empty_row

\* the invocation returned although it had deltas the table never took
ReturnedUnapplied(inv) ==
    /\ inv.pc = "done"
    /\ DeltaOf(inv.records) # <<>>
    /\ ~Applied(inv.client_request_token)

BothFinished == peer # None /\ Finished /\ peer[1].pc \in {"done", "failed"}

\* C11: two invocations on different batches, on disjoint or overlapping
\* workflow runs, interleaved step by step in any way: once both have
\* finished, every counter of every row is the sum of the deltas of the
\* batches whose transaction the table applied, and an invocation that
\* returned normally with deltas is among them.
C11_ConcurrentSum ==
    BothFinished =>
        /\ \A w \in WorkflowRuns :
              store[w] = add_row(AppliedRow(this_invocation, w), AppliedRow(peer[1], w))
        /\ ~ReturnedUnapplied(this_invocation)
        /\ ~ReturnedUnapplied(peer[1])

\* both invocations were applied on the same counter of the same row, and
\* each of them was suspended while the other had a call in flight
C11_Witness ==
    /\ BothFinished
    /\ pc = "done" /\ peer[1].pc = "done"
    /\ Cardinality(store_tokens) = 2
    /\ store["w1"].count_requested = 2
    /\ retries > 0 /\ peer[1].retries > 0

------------------------------------------------------------------------------
(* C12: the token is a function of the batch content *)

\* the same batch with every record dict rebuilt in key order o
Rebuilt(recs, o) == [i \in 1..Len(recs) |-> with_key_order(recs[i], o)]

\* C12: the token of the controller is the token generated again from its
\* batch, and (compared once, when the controller has just been constructed)
\* it is the token of every batch that is equal to it as a list of key/value
\* mappings but whose dicts were built in another key order.
C12_TokenOfContent ==
    /\ client_request_token = _generate_client_request_token(records)
    /\ idx = 1 =>
          \A o \in KeyOrders :
              _generate_client_request_token(Rebuilt(records, o)) = client_request_token

\* a batch of two records whose dicts were built in two different orders,
\* neither of them the sorted one, one with both images in reverse order
C12_Witness ==
    /\ Len(records) = 2
    /\ records[1].key_order.top = <<"eventSource", "dynamodb", "eventName">>
    /\ records[1].key_order.dynamodb = <<"OldImage", "NewImage">>
    /\ records[1].OldImage # None
    /\ records[2].key_order.top = <<"eventName", "eventSource", "dynamodb">>
    /\ pc = "loop" /\ idx > Len(records)

------------------------------------------------------------------------------
(* C19: the shape of the token *)

\* C19: for every batch, the empty one included, the token has exactly 36
\* characters of the 64-character hex digest of the dumped batch: the 32
\* characters at the even indices 0, 2, ..., 62 and then the last four
\* characters, those at 60, 61, 62, 63.
C19_TokenIs36Chars ==
    /\ Len(hexdigest(json_dumps(records)).at) = 64
    /\ client_request_token.sha256 = json_dumps(records)
    /\ Len(client_request_token.at) = 36
    /\ \A i \in 1..32 : client_request_token.at[i] = 2 * (i - 1)
    /\ \A i \in 33..36 : client_request_token.at[i] = 60 + (i - 33)

\* the empty batch went through the loop with its 36-character token
C19_Witness ==
    /\ pc = "attempt"
    /\ records = <<>>
    /\ Len(client_request_token.at) = 36

------------------------------------------------------------------------------
(* C13: the token was used before with other content *)

\* the transaction the batch of the invocation amounts to
ExpectedItems ==
    LET d == Delta IN {[Key |-> w, ADD |-> RowIn(d, w)] : w \in DOMAIN d}

\* the invocation has something to submit, and the table took other content
\* under its token
Collides ==
    /\ \E t \in store_tokens :
          /\ t.ClientRequestToken = client_request_token
          /\ t.TransactItems # ExpectedItems
    /\ ExpectedItems # {}

\* the table holds the transactions it took before, and nothing else
OnlyEarlier ==
    \E t \in store_tokens :
        /\ store_tokens = {t}
        /\ store = apply_items([w \in WorkflowRuns |-> empty_row], t.TransactItems)

\* C13: when the table refuses the submission because its token was used with
\* other content, the invocation does not return normally but ends by raising
\* (after the attempts of the retry wrapper are used up), no counter of the
\* table is changed and no counted-status line is written.
C13_MismatchIsFatal ==
    /\ [](Collides => pc # "done" /\ OnlyEarlier /\ logged = <<>>)
    /\ (Collides ~> pc = "failed")

\* the table answered "mismatch" to the last attempt and the invocation raised
C13_Witness ==
    /\ Collides
    /\ response = "mismatch"
    /\ pc = "failed"
    /\ retries = max_retries

------------------------------------------------------------------------------
(* C14: every attempt submits the same *)

\* C14: whatever attempt of the invocation is under way, the transaction it
\* is about to submit is the one its batch amounts to, under the token made
\* at construction; and no step of update_metric_query (anything after the
\* loop) changes workflow_run_metrics, counted_logs or client_request_token.
C14_AttemptsSubmitTheSame ==
    /\ [](\A i \in 1..Len(pending) :
             pending[i] = [TransactItems |-> ExpectedItems,
                           ClientRequestToken |-> client_request_token])
    /\ [][pc # "loop" =>
             UNCHANGED <<workflow_run_metrics, counted_logs, client_request_token>>]_vars

\* a third attempt is about to submit, after two attempts raised, the table
\* having applied the transaction of one of them
C14_Witness ==
    /\ pc = "call"
    /\ pending # <<>>
    /\ retries = 2
    /\ Accepted
    /\ Len(counted_logs) = 2

------------------------------------------------------------------------------
(* C15: nothing counted, nothing submitted *)

\* C15: when no record of the batch is counted (the batch is empty, or every
\* record is filtered out, malformed or not a recognized transition), the
\* invocation never builds a call to the table, never raises, writes no
\* counted-status line and leaves the table as it was.
C15_NothingCountedNothingSubmitted ==
    CountedLines(records) = <<>> =>
        /\ pending = <<>>
        /\ pc # "failed"
        /\ retries = 0
        /\ response = "none"
        /\ store_tokens = {}
        /\ NoneApplied
        /\ logged = <<>>

\* a batch of a malformed record and a record from another source has returned
C15_Witness ==
    /\ pc = "done"
    /\ Len(records) = 2
    /\ Malformed(records[1])
    /\ records[2].eventSource # "aws:dynamodb"
    /\ CountedLines(records) = <<>>
    /\ store_tokens = {}

------------------------------------------------------------------------------
(* C16: one record is counted once per status *)

\* C16: the stream of a single record that only moves REQUESTED -> STAGED ->
\* DOWNLOADED, with updates that leave the status as it was, cut into any
\* batches that are each processed by one invocation: no count of any row
\* ever exceeds 1.
C16_CountedOncePerStatus ==
    \A w \in WorkflowRuns :
        /\ store[w].count_requested <= 1
        /\ store[w].count_staged <= 1
        /\ store[w].count_downloaded <= 1

\* the record went through all three statuses in three batches, each counted
\* once, and a fourth batch with an update that kept DOWNLOADED has returned
C16_Witness ==
    /\ pc = "done"
    /\ later = <<>>
    /\ Len(records) = 1
    /\ OldStatus(records[1]) = Some(DOWNLOADED)
    /\ NewStatus(records[1]) = DOWNLOADED
    /\ Cardinality(store_tokens) = 3
    /\ store["w1"].count_requested = 1
    /\ store["w1"].count_staged = 1
    /\ store["w1"].count_downloaded = 1

------------------------------------------------------------------------------
(* C17: counters only grow *)

NonNegativeRow(row) ==
    /\ row.count_requested >= 0 /\ row.size_requested >= 0
    /\ row.count_staged >= 0 /\ row.size_staged >= 0
    /\ row.count_downloaded >= 0 /\ row.size_downloaded >= 0

NotBelow(new_row, row) ==
    /\ new_row.count_requested >= row.count_requested
    /\ new_row.size_requested >= row.size_requested
    /\ new_row.count_staged >= row.count_staged
    /\ new_row.size_staged >= row.size_staged
    /\ new_row.count_downloaded >= row.count_downloaded
    /\ new_row.size_downloaded >= row.size_downloaded

\* C17: the sizes of the stream being non-negative, each of the six values of
\* every update an attempt is about to submit is non-negative, and over the
\* invocations that follow one another no step lowers any counter of any row.
C17_CountersOnlyGrow ==
    /\ [](\A i \in 1..Len(pending) :
             \A u \in pending[i].TransactItems : NonNegativeRow(u.ADD))
    /\ [][\A w \in WorkflowRuns : NotBelow(store'[w], store[w])]_vars

\* the third invocation in a row is about to add to a row that the two
\* before it have already increased
C17_Witness ==
    /\ pc = "call"
    /\ pending # <<>>
    /\ Cardinality(store_tokens) = 2
    /\ \E w \in WorkflowRuns :
          /\ store[w].count_requested = 1 /\ store[w].count_staged = 1
          /\ \E u \in pending[1].TransactItems :
                u.Key = w /\ u.ADD.count_downloaded = 1 /\ u.ADD.size_downloaded >= 1

------------------------------------------------------------------------------
(* C18: which events are classified, and with which old status *)

\* C18: an iteration of the loop over an event that does not come from the
\* table's stream, or that is neither an INSERT nor a MODIFY, changes no delta
\* and queues no line.  An INSERT is classified with no old status and a
\* MODIFY with the status of its OldImage: the iteration counts the record
\* (one more queued line, under its new status) exactly when the record is a
\* readable archive retrieval and that pair of statuses is a recognized
\* transition, and otherwise changes nothing.
C18_OnlyStreamInsertsAndModifies ==
    [][LoopStep =>
          /\ ~Processed(records[idx]) => NoEffect
          /\ IF Counted(records[idx])
             THEN /\ counted_logs' = counted_logs \o CountedLines(<<records[idx]>>)
                  /\ workflow_run_metrics' # workflow_run_metrics
             ELSE NoEffect]_vars

\* after a counted record, an INSERT that is countable in everything but its
\* source has been handled
C18_Witness ==
    /\ pc = "loop"
    /\ idx = 3
    /\ records[2].eventSource # "aws:dynamodb"
    /\ records[2].eventName = "INSERT"
    /\ IsArchive(records[2]) /\ HasSizeAndId(records[2])
    /\ records[2].NewImage.size # Some(0)
    /\ NewStatus(records[2]) = REQUESTED
    /\ Len(counted_logs) = 1

------------------------------------------------------------------------------
(* C20: the transaction of an instance that is called more than once *)

\* C20: however often handle_archive_status_changed has been called on the
\* instance, the transaction an attempt is about to submit under the token of
\* the instance is the one a single pass over its records amounts to.
C20_SubmittedIsSinglePass ==
    \A i \in 1..Len(pending) : pending[i].TransactItems = ExpectedItems

------------------------------------------------------------------------------
(* C21: queued lines and count deltas *)

RECURSIVE CountSum(_, _)
\* the three counts of the runs W of the delta map d, added up
CountSum(d, W) ==
    IF W = {} THEN 0
    ELSE LET w == CHOOSE v \in W : TRUE
         IN d[w].requested_count + d[w].staged_count + d[w].downloaded_count
            + CountSum(d, W \ {w})

\* C21: at every point of an invocation the number of queued lines is the sum
\* of the three counts over all workflow runs of the delta map; a workflow
\* run is a key of the delta map only if one of its counts is positive; and
\* no update an attempt is about to submit adds zero to all six counters.
C21_LinesMatchCounts ==
    /\ Len(counted_logs) = CountSum(workflow_run_metrics, DOMAIN workflow_run_metrics)
    /\ \A w \in DOMAIN workflow_run_metrics :
          \/ workflow_run_metrics[w].requested_count > 0
          \/ workflow_run_metrics[w].staged_count > 0
          \/ workflow_run_metrics[w].downloaded_count > 0
    /\ \A i \in 1..Len(pending) :
          \A u \in pending[i].TransactItems : u.ADD # empty_row

\* an attempt is about to submit for two workflow runs; two records of the
\* batch were counted and its unrecognized transition was not
C21_Witness ==
    /\ pc = "call"
    /\ pending # <<>>
    /\ Len(records) = 3
    /\ Len(counted_logs) = 2
    /\ DOMAIN workflow_run_metrics = WorkflowRuns
    /\ \E i \in 1..3 : Valid(records[i]) /\ ~Recognized(records[i])

------------------------------------------------------------------------------
(* C22: sizes against counts *)

\* no size without a count, and at least 1 of size for every count
SizeFollowsCount(count, size) ==
    /\ count >= 0
    /\ count = 0 => size = 0
    /\ count > 0 => size >= count

\* C22: in the delta map at every point of an invocation, and in every
\* update an attempt is about to submit, for each of the three statuses a
\* count of 0 comes with a size of 0 and a positive count with a size that is
\* at least the count (the sizes of the stream being non-negative, and a
\* record of size 0 not being counted).
C22_SizeFollowsCount ==
    /\ \A w \in DOMAIN workflow_run_metrics :
          \A S \in {REQUESTED, STAGED, DOWNLOADED} :
              SizeFollowsCount(CountOf(workflow_run_metrics[w], S),
                               SizeOf(workflow_run_metrics[w], S))
    /\ \A i \in 1..Len(pending) :
          \A u \in pending[i].TransactItems :
              /\ SizeFollowsCount(u.ADD.count_requested, u.ADD.size_requested)
              /\ SizeFollowsCount(u.ADD.count_staged, u.ADD.size_staged)
              /\ SizeFollowsCount(u.ADD.count_downloaded, u.ADD.size_downloaded)

\* an attempt is about to submit the one staged archive of a batch whose
\* first record went uncounted
C22_Witness ==
    /\ pc = "call"
    /\ pending # <<>>
    /\ Len(records) = 2
    /\ \E u \in pending[1].TransactItems :
          /\ u.ADD.count_staged = 1 /\ u.ADD.size_staged >= 1
          /\ u.ADD.count_requested = 0 /\ u.ADD.size_requested = 0

====
